---- MODULE Spec2Model ----
(***************************************************************************)
(* Model of the postgres execution-maps persistence plugin of cadence      *)
(* (package postgres: activity_info_maps, timer_info_maps,                 *)
(* child_execution_info_maps, request_cancel_info_maps, signal_info_maps,  *)
(* signals_requested_sets).                                                *)
(*                                                                         *)
(* State: the tables of every physical database shard, the calls that are  *)
(* in flight, and a record of the call that completed last.  One handler   *)
(* call issues at most one statement; the backend executes a statement     *)
(* atomically.                                                             *)
(*                                                                         *)
(* act is the state of one run of TaskListScavengerActivity (package       *)
(* scanner), the consumer of the persistence layer that is modelled here   *)
(* by its control flow.                                                    *)
(***************************************************************************)
EXTENDS Integers, Sequences, FiniteSets, TLC

VARIABLES db, calls, hist, ops, scope, act

vars == <<db, calls, hist, ops, scope, act>>

----------------------------------------------------------------------------
(* Bounds of the explored universe *)

\* map keys are 1..MaxKey
MaxKey == 2
\* longest row batch and longest key list a caller passes
MaxBatch == 2
\* number of handler calls in one behaviour of single-row calls
MaxOps == 3
\* number of handler calls in one behaviour of multi-row calls
MaxBatchOps == 2
\* number of handler calls of both callers in one concurrent behaviour
MaxConcOps == 2
\* number of writing handler calls of both callers in one concurrent behaviour
MaxRaceOps == 3
\* number of writing handler calls, of batches, of both callers in one
\* concurrent behaviour
MaxWriteOps == 2
\* heartbeats of the scavenger activity that are counted
MaxBeats == 3

----------------------------------------------------------------------------
(* Configuration and schema registry *)

\* pdb.GetTotalNumDBShards(): the configured number of physical shards
NumDBShards == 2

DBShards == 0 .. (NumDBShards - 1)

Kinds == {"activity", "timer", "child", "cancel", "signal", "sigreq"}

IdentityColumns == <<"shard_id", "domain_id", "workflow_id", "run_id">>

TableName(kind) ==
  CASE kind = "activity" -> "activity_info_maps"
    [] kind = "timer"    -> "timer_info_maps"
    [] kind = "child"    -> "child_execution_info_maps"
    [] kind = "cancel"   -> "request_cancel_info_maps"
    [] kind = "signal"   -> "signal_info_maps"
    [] kind = "sigreq"   -> "signals_requested_sets"

Tables == {TableName(k) : k \in Kinds}

KeyName(kind) ==
  CASE kind = "activity" -> "schedule_id"
    [] kind = "timer"    -> "timer_id"
    [] kind = "child"    -> "initiated_id"
    [] kind = "cancel"   -> "initiated_id"
    [] kind = "signal"   -> "initiated_id"
    [] kind = "sigreq"   -> "signal_id"

\* the non-primary-key columns, in the order of the registry
Columns(kind) ==
  CASE kind = "activity" -> <<"data", "data_encoding", "last_heartbeat_details",
                              "last_heartbeat_updated_time">>
    [] kind = "sigreq"   -> <<>>
    [] OTHER             -> <<"data", "data_encoding">>

SeqRange(s) == {s[i] : i \in 1 .. Len(s)}

----------------------------------------------------------------------------
(* Data universe of the callers *)

Keys == 1 .. MaxKey

\* Four executions: the first two share the logical shard, the second and
\* third differ in the logical shard only and share the physical shard, the
\* first and fourth differ in the logical shard only and live on different
\* physical shards.
Executions ==
  { [shard_id |-> 0, domain_id |-> "d1", workflow_id |-> "w1", run_id |-> "r1"],
    [shard_id |-> 0, domain_id |-> "d1", workflow_id |-> "w1", run_id |-> "r2"],
    [shard_id |-> 2, domain_id |-> "d1", workflow_id |-> "w1", run_id |-> "r2"],
    [shard_id |-> 1, domain_id |-> "d1", workflow_id |-> "w1", run_id |-> "r1"] }

\* A time.Time: an instant in nanoseconds and a location.
ZeroTime == [ns |-> 0, loc |-> "UTC"]

LocalTime == [ns |-> 2500, loc |-> "Local"]

\* The value columns a caller writes, per kind.
Values(kind) ==
  CASE kind = "activity" ->
         { [data |-> "a", data_encoding |-> "x", last_heartbeat_details |-> "h1",
            last_heartbeat_updated_time |-> ZeroTime],
           [data |-> "b", data_encoding |-> "y", last_heartbeat_details |-> "h2",
            last_heartbeat_updated_time |-> LocalTime] }
    [] kind = "sigreq" -> { <<>> }
    [] OTHER ->
         { [data |-> "a", data_encoding |-> "x"],
           [data |-> "b", data_encoding |-> "y"] }

\* A sqlplugin.<Kind>MapsRow: identity columns, the map key, the value columns.
MakeRow(kind, e, k, v) ==
  IF Columns(kind) = <<>>
    THEN e @@ (KeyName(kind) :> k)
    ELSE e @@ (KeyName(kind) :> k) @@ v

Rows(kind) ==
  {MakeRow(kind, e, k, v) : e \in Executions, k \in Keys, v \in Values(kind)}

Identity(r) == [c \in SeqRange(IdentityColumns) |-> r[c]]

SeqsUpTo(S, n) == UNION {[1 .. m -> S] : m \in 0 .. n}

\* Row batches, of at most n rows, of a caller that partitions its batches by
\* logical shard.
Batches(kind, n) ==
  {b \in SeqsUpTo(Rows(kind), n) :
     \A i \in 1 .. Len(b) : b[i].shard_id = b[1].shard_id}

\* A Go slice of keys: nil or present, both of length Len(elems).
NilKeys == [isNil |-> TRUE, elems |-> <<>>]

KeyLists ==
  {NilKeys} \cup {[isNil |-> FALSE, elems |-> s] : s \in SeqsUpTo(Keys, MaxBatch)}

\* A sqlplugin.<Kind>MapsFilter
Filters == {[id |-> e, keys |-> ks] : e \in Executions, ks \in KeyLists}

----------------------------------------------------------------------------
(* Shard router and row codec *)

\* sqlplugin.GetDBShardIDFromHistoryShardID
GetDBShardIDFromHistoryShardID(historyShardID, numDBShards) ==
  historyShardID % numDBShards

\* pdb.converter.ToPostgresDateTime
ToPostgresDateTime(t) == [ns |-> t.ns, loc |-> "UTC"]

\* pdb.converter.FromPostgresDateTime
FromPostgresDateTime(t) == [ns |-> t.ns, loc |-> "UTC"]

\* nanoseconds per unit of the backend's timestamp precision
BackendPrecision == 1000

\* A timestamp as the backend keeps it: at its own precision.
StoreTimestamp(t) == [ns |-> t.ns - (t.ns % BackendPrecision), loc |-> t.loc]

TimestampColumns == {"last_heartbeat_updated_time"}

\* The row as the backend stores it.
StoredRow(r) ==
  [c \in DOMAIN r |-> IF c \in TimestampColumns THEN StoreTimestamp(r[c]) ELSE r[c]]

----------------------------------------------------------------------------
(* Query templates: built once per kind, only bound values vary per call *)

\* makeDeleteMapQry with run_id missing from the WHERE clause
makeDeleteMapQry_NoRunID(tableName) ==
  [shape |-> "deleteAll", table |-> tableName,
   where |-> <<"shard_id", "domain_id", "workflow_id">>]

\* deleteMapQueryTemplate: DELETE FROM t WHERE shard_id = $1 AND ... run_id = $4
makeDeleteMapQry(tableName) ==
  [shape |-> "deleteAll", table |-> tableName, where |-> IdentityColumns]

\* makeSetKeyInMapQry with the last value column missing from the SET list
makeSetKeyInMapQry_SetOmitsLastColumn(tableName, nonPrimaryKeyColumns, mapKeyName) ==
  [shape      |-> "upsert",
   table      |-> tableName,
   insert     |-> IdentityColumns \o <<mapKeyName>> \o nonPrimaryKeyColumns,
   conflict   |-> IdentityColumns \o <<mapKeyName>>,
   onConflict |-> "update",
   set        |-> IdentityColumns \o <<mapKeyName>>
                    \o SubSeq(nonPrimaryKeyColumns, 1, Len(nonPrimaryKeyColumns) - 1)]

\* makeSetKeyInMapQry that keeps the stored row on conflict
makeSetKeyInMapQry_DoNothing(tableName, nonPrimaryKeyColumns, mapKeyName) ==
  [shape      |-> "upsert",
   table      |-> tableName,
   insert     |-> IdentityColumns \o <<mapKeyName>> \o nonPrimaryKeyColumns,
   conflict   |-> IdentityColumns \o <<mapKeyName>>,
   onConflict |-> "nothing",
   set        |-> <<>>]

\* makeSetKeyInMapQry with the map key missing from the conflict target
makeSetKeyInMapQry_ConflictOnIdentity(tableName, nonPrimaryKeyColumns, mapKeyName) ==
  [shape      |-> "upsert",
   table      |-> tableName,
   insert     |-> IdentityColumns \o <<mapKeyName>> \o nonPrimaryKeyColumns,
   conflict   |-> IdentityColumns,
   onConflict |-> "update",
   set        |-> IdentityColumns \o <<mapKeyName>> \o nonPrimaryKeyColumns]

\* makeSetKeyInMapQry with the value columns added to the conflict target
makeSetKeyInMapQry_ConflictOnAllColumns(tableName, nonPrimaryKeyColumns, mapKeyName) ==
  [shape      |-> "upsert",
   table      |-> tableName,
   insert     |-> IdentityColumns \o <<mapKeyName>> \o nonPrimaryKeyColumns,
   conflict   |-> IdentityColumns \o <<mapKeyName>> \o nonPrimaryKeyColumns,
   onConflict |-> "update",
   set        |-> IdentityColumns \o <<mapKeyName>> \o nonPrimaryKeyColumns]

\* setKeyInMapQueryTemplate: INSERT ... VALUES ... ON CONFLICT (identity, key)
\* DO UPDATE SET (identity, key, columns) = (excluded. ...)
makeSetKeyInMapQry(tableName, nonPrimaryKeyColumns, mapKeyName) ==
  [shape      |-> "upsert",
   table      |-> tableName,
   insert     |-> IdentityColumns \o <<mapKeyName>> \o nonPrimaryKeyColumns,
   conflict   |-> IdentityColumns \o <<mapKeyName>>,
   onConflict |-> "update",
   set        |-> IdentityColumns \o <<mapKeyName>> \o nonPrimaryKeyColumns]

\* makeDeleteKeyInMapQry with the IN clause missing from the WHERE clause
makeDeleteKeyInMapQry_NoInClause(tableName, mapKeyName) ==
  [shape |-> "deleteAll", table |-> tableName, where |-> IdentityColumns,
   inColumn |-> mapKeyName, bindvars |-> Len(IdentityColumns) + 1]

\* deleteKeyInMapQueryTemplate: DELETE FROM t WHERE shard_id = ? AND ... AND
\* key IN ( ? ); five bindvars, the fifth is the list
makeDeleteKeyInMapQry(tableName, mapKeyName) ==
  [shape |-> "deleteKeys", table |-> tableName, where |-> IdentityColumns,
   inColumn |-> mapKeyName, bindvars |-> Len(IdentityColumns) + 1]

\* getMapQueryTemplate: SELECT key, columns FROM t WHERE identity
makeGetMapQryTemplate(tableName, nonPrimaryKeyColumns, mapKeyName) ==
  [shape |-> "select", table |-> tableName,
   select |-> <<mapKeyName>> \o nonPrimaryKeyColumns, where |-> IdentityColumns]

deleteAllSignalsRequestedSetQuery ==
  [shape |-> "deleteAll", table |-> "signals_requested_sets", where |-> IdentityColumns]

\* createSignalsRequestedSetQuery with signal_id missing from the conflict target
createSignalsRequestedSetQuery_ConflictOnIdentity ==
  [shape      |-> "upsert",
   table      |-> "signals_requested_sets",
   insert     |-> IdentityColumns \o <<"signal_id">>,
   conflict   |-> IdentityColumns,
   onConflict |-> "nothing",
   set        |-> <<>>]

\* INSERT ... ON CONFLICT (identity, signal_id) DO NOTHING
createSignalsRequestedSetQuery ==
  [shape      |-> "upsert",
   table      |-> "signals_requested_sets",
   insert     |-> IdentityColumns \o <<"signal_id">>,
   conflict   |-> IdentityColumns \o <<"signal_id">>,
   onConflict |-> "nothing",
   set        |-> <<>>]

deleteSignalsRequestedSetQuery ==
  [shape |-> "deleteKeys", table |-> "signals_requested_sets", where |-> IdentityColumns,
   inColumn |-> "signal_id", bindvars |-> Len(IdentityColumns) + 1]

getSignalsRequestedSetQuery ==
  [shape |-> "select", table |-> "signals_requested_sets",
   select |-> <<"signal_id">>, where |-> IdentityColumns]

\* the package-level query variables of each kind
deleteMapQry(kind) ==
  IF kind = "sigreq" THEN deleteAllSignalsRequestedSetQuery
  ELSE makeDeleteMapQry(TableName(kind))

\* the query variables of request-cancel-info built with the table name of
\* child-execution-info
setKeyInMapQry_CancelIntoChildTable(kind) ==
  IF kind = "sigreq" THEN createSignalsRequestedSetQuery
  ELSE IF kind = "cancel"
    THEN makeSetKeyInMapQry(TableName("child"), Columns(kind), KeyName(kind))
  ELSE makeSetKeyInMapQry(TableName(kind), Columns(kind), KeyName(kind))

setKeyInMapQry(kind) ==
  IF kind = "sigreq" THEN createSignalsRequestedSetQuery
  ELSE makeSetKeyInMapQry(TableName(kind), Columns(kind), KeyName(kind))

deleteKeyInMapQry(kind) ==
  IF kind = "sigreq" THEN deleteSignalsRequestedSetQuery
  ELSE makeDeleteKeyInMapQry(TableName(kind), KeyName(kind))

\* the delete-all query variable of the kind in the place of its select query
\* variable
getMapQry_DeleteQuery(kind) == deleteMapQry(kind)

getMapQry(kind) ==
  IF kind = "sigreq" THEN getSignalsRequestedSetQuery
  ELSE makeGetMapQryTemplate(TableName(kind), Columns(kind), KeyName(kind))

----------------------------------------------------------------------------
(* sqlx.In and the backend's execution of one statement on one table *)

\* sqlx.In followed by sqlx.Rebind: the list bindvar becomes one bindvar per
\* element; an empty list is an error.  expand is the error the expansion
\* raises of its own accord, or "nil".
In(query, identityArgs, list, expand) ==
  IF expand # "nil"
    THEN [err |-> expand, query |-> query, args |-> <<>>]
  ELSE IF Len(list) = 0
    THEN [err |-> "empty slice passed to 'in' query", query |-> query, args |-> <<>>]
    ELSE [err |-> "nil",
          query |-> [query EXCEPT !.bindvars = Len(identityArgs) + Len(list)],
          args |-> identityArgs \o list]

\* the WHERE clause on the identity columns
Matches(r, where, args) == \A i \in 1 .. Len(where) : r[where[i]] = args[i]

Restrict(r, cols) == [c \in SeqRange(cols) |-> r[c]]

\* INSERT ... ON CONFLICT.  DO UPDATE: a row whose conflict target exists is
\* overwritten in the columns of the SET list; two rows of one statement with
\* the same conflict target are an error and nothing is written.
\* DO NOTHING: a row whose conflict target exists is skipped.
ExecUpsert(table, query, rows) ==
  LET target(r) == Restrict(r, query.conflict)
      incoming == {Restrict(StoredRow(rows[i]), query.insert) : i \in 1 .. Len(rows)}
      twice == \E i, j \in 1 .. Len(rows) : i < j /\ target(rows[i]) = target(rows[j])
      hit(old) == {n \in incoming : target(n) = target(old)}
      merged(old) ==
        LET n == CHOOSE n \in hit(old) : TRUE
        IN  [c \in DOMAIN old |-> IF c \in SeqRange(query.set) THEN n[c] ELSE old[c]]
      fresh == {n \in incoming : \A old \in table : target(old) # target(n)}
  IN  IF query.onConflict = "update" /\ twice
        THEN [err |-> "cardinality_violation", table |-> table, out |-> {}]
      ELSE IF query.onConflict = "update"
        THEN [err |-> "nil",
              table |-> {IF hit(old) = {} THEN old ELSE merged(old) : old \in table}
                          \cup fresh,
              out |-> {}]
      ELSE [err |-> "nil", table |-> table \cup fresh, out |-> {}]

\* DELETE ... WHERE identity
ExecDeleteAll(table, query, args) ==
  [err |-> "nil", table |-> {r \in table : ~Matches(r, query.where, args)}, out |-> {}]

\* DELETE ... WHERE identity AND key IN (list)
ExecDeleteKeys(table, query, args) ==
  LET n == Len(query.where)
      list == {args[i] : i \in (n + 1) .. Len(args)}
  IN  [err |-> "nil",
       table |-> {r \in table :
                    ~(Matches(r, query.where, args) /\ r[query.inColumn] \in list)},
       out |-> {}]

\* SELECT key, columns ... WHERE identity
ExecSelect(table, query, args) ==
  [err |-> "nil", table |-> table,
   out |-> {Restrict(r, query.select) : r \in {x \in table : Matches(x, query.where, args)}}]

\* One statement, executed atomically by the backend.
ExecStatement(table, query, args) ==
  CASE query.shape = "upsert"     -> ExecUpsert(table, query, args)
    [] query.shape = "deleteAll"  -> ExecDeleteAll(table, query, args)
    [] query.shape = "deleteKeys" -> ExecDeleteKeys(table, query, args)
    [] query.shape = "select"     -> ExecSelect(table, query, args)

----------------------------------------------------------------------------
(* The handlers.  Each returns what it hands to the driver: whether a      *)
(* statement is issued, the physical shard, the query and its arguments.   *)

IdentityArgs(filter) ==
  <<filter.id.shard_id, filter.id.domain_id, filter.id.workflow_id, filter.id.run_id>>

NoStatement(e) ==
  [issued |-> FALSE, dbShardID |-> -1, query |-> [shape |-> "none"], args |-> <<>>,
   err |-> e]

\* a conversion that moves the instant by the zone offset on every call
ConvertRows_ShiftsInstant(kind, rows) ==
  IF kind = "activity"
    THEN [i \in 1 .. Len(rows) |->
            [rows[i] EXCEPT !["last_heartbeat_updated_time"] =
                              [ns |-> @.ns + BackendPrecision, loc |-> "UTC"]]]
    ELSE rows

\* the rows of the caller's slice as ReplaceInto<Kind> leaves them
ConvertRows(kind, rows) ==
  IF kind = "activity"
    THEN [i \in 1 .. Len(rows) |->
            [rows[i] EXCEPT !["last_heartbeat_updated_time"] = ToPostgresDateTime(@)]]
    ELSE rows

\* ReplaceInto<Kind> without the early return on an empty batch
ReplaceInto_NoEarlyReturn(kind, rows) ==
  [issued |-> TRUE,
   dbShardID |-> IF Len(rows) = 0 THEN 0
                 ELSE GetDBShardIDFromHistoryShardID(rows[1].shard_id, NumDBShards),
   query |-> setKeyInMapQry(kind),
   args |-> ConvertRows(kind, rows),
   err |-> "nil",
   slice |-> ConvertRows(kind, rows)]

\* ReplaceInto<Kind> that converts a copy of the rows and leaves the caller's
\* slice as it was
ReplaceInto_ConvertsCopy(kind, rows) ==
  IF Len(rows) = 0
    THEN NoStatement("nil") @@ [slice |-> rows]
    ELSE [issued |-> TRUE,
          dbShardID |-> GetDBShardIDFromHistoryShardID(rows[1].shard_id, NumDBShards),
          query |-> setKeyInMapQry(kind),
          args |-> ConvertRows(kind, rows),
          err |-> "nil",
          slice |-> rows]

\* ReplaceInto<Kind> that executes on the default physical shard
ReplaceInto_DefaultShard(kind, rows) ==
  IF Len(rows) = 0
    THEN NoStatement("nil") @@ [slice |-> rows]
    ELSE [issued |-> TRUE,
          dbShardID |-> 0,
          query |-> setKeyInMapQry(kind),
          args |-> ConvertRows(kind, rows),
          err |-> "nil",
          slice |-> ConvertRows(kind, rows)]

\* ReplaceInto<Kind>Maps / InsertIntoSignalsRequestedSets.  The rows handed to
\* the driver are the caller's slice itself: slice is that slice as the
\* handler leaves it.
ReplaceInto(kind, rows) ==
  IF Len(rows) = 0
    THEN NoStatement("nil") @@ [slice |-> rows]
    ELSE [issued |-> TRUE,
          dbShardID |-> GetDBShardIDFromHistoryShardID(rows[1].shard_id, NumDBShards),
          query |-> setKeyInMapQry(kind),
          args |-> ConvertRows(kind, rows),
          err |-> "nil",
          slice |-> ConvertRows(kind, rows)]

\* SelectFrom<Kind> that reads from the default physical shard
SelectFrom_DefaultShard(kind, filter) ==
  [issued |-> TRUE,
   dbShardID |-> 0,
   query |-> getMapQry(kind),
   args |-> IdentityArgs(filter),
   err |-> "nil"]

\* SelectFrom<Kind>: the statement
SelectFrom(kind, filter) ==
  [issued |-> TRUE,
   dbShardID |-> GetDBShardIDFromHistoryShardID(filter.id.shard_id, NumDBShards),
   query |-> getMapQry(kind),
   args |-> IdentityArgs(filter),
   err |-> "nil"]

\* SelectFrom<Kind> that leaves the identity columns as the scan left them
SelectRows_NoRestamp(kind, filter, scanned) ==
  {LET full == [shard_id |-> 0, domain_id |-> "", workflow_id |-> "", run_id |-> ""] @@ r
   IN  IF kind = "activity"
         THEN [full EXCEPT !["last_heartbeat_updated_time"] = FromPostgresDateTime(@)]
         ELSE full
   : r \in scanned}

\* SelectFrom<Kind> whose loop leaves out the assignment of RunID
SelectRows_NoRunID(kind, filter, scanned) ==
  {LET full == [filter.id EXCEPT !.run_id = ""] @@ r
   IN  IF kind = "activity"
         THEN [full EXCEPT !["last_heartbeat_updated_time"] = FromPostgresDateTime(@)]
         ELSE full
   : r \in scanned}

\* SelectFrom<Kind>: the loop over the scanned rows, which carry the selected
\* columns only
SelectRows(kind, filter, scanned) ==
  {LET full == filter.id @@ r
   IN  IF kind = "activity"
         THEN [full EXCEPT !["last_heartbeat_updated_time"] = FromPostgresDateTime(@)]
         ELSE full
   : r \in scanned}

\* DeleteFrom<Kind> that takes the key-set branch for two keys or more only
DeleteFrom_MoreThanOneKey(kind, filter, expand) ==
  LET dbShardID == GetDBShardIDFromHistoryShardID(filter.id.shard_id, NumDBShards)
  IN  IF Len(filter.keys.elems) > 1
        THEN LET in == In(deleteKeyInMapQry(kind), IdentityArgs(filter), filter.keys.elems, expand)
             IN  IF in.err # "nil"
                   THEN NoStatement(in.err)
                   ELSE [issued |-> TRUE, dbShardID |-> dbShardID, query |-> in.query,
                         args |-> in.args, err |-> "nil"]
        ELSE [issued |-> TRUE, dbShardID |-> dbShardID, query |-> deleteMapQry(kind),
              args |-> IdentityArgs(filter), err |-> "nil"]

\* DeleteFrom<Kind> that writes the keys into the statement text
DeleteFrom_KeysInText(kind, filter, expand) ==
  LET dbShardID == GetDBShardIDFromHistoryShardID(filter.id.shard_id, NumDBShards)
  IN  IF Len(filter.keys.elems) > 0
        THEN LET in == In(deleteKeyInMapQry(kind), IdentityArgs(filter), filter.keys.elems, expand)
             IN  IF in.err # "nil"
                   THEN NoStatement(in.err)
                   ELSE [issued |-> TRUE, dbShardID |-> dbShardID,
                         query |-> in.query @@ [literals |-> filter.keys.elems],
                         args |-> in.args, err |-> "nil"]
        ELSE [issued |-> TRUE, dbShardID |-> dbShardID, query |-> deleteMapQry(kind),
              args |-> IdentityArgs(filter), err |-> "nil"]

\* DeleteFrom<Kind> that passes the first key of the list only
DeleteFrom_FirstKeyOnly(kind, filter, expand) ==
  LET dbShardID == GetDBShardIDFromHistoryShardID(filter.id.shard_id, NumDBShards)
  IN  IF Len(filter.keys.elems) > 0
        THEN LET in == In(deleteKeyInMapQry(kind), IdentityArgs(filter),
                          <<filter.keys.elems[1]>>, expand)
             IN  IF in.err # "nil"
                   THEN NoStatement(in.err)
                   ELSE [issued |-> TRUE, dbShardID |-> dbShardID, query |-> in.query,
                         args |-> in.args, err |-> "nil"]
        ELSE [issued |-> TRUE, dbShardID |-> dbShardID, query |-> deleteMapQry(kind),
              args |-> IdentityArgs(filter), err |-> "nil"]

\* DeleteFrom<Kind> that executes delete-all when the expansion failed
DeleteFrom_DeleteAllOnExpansionError(kind, filter, expand) ==
  LET dbShardID == GetDBShardIDFromHistoryShardID(filter.id.shard_id, NumDBShards)
      in == In(deleteKeyInMapQry(kind), IdentityArgs(filter), filter.keys.elems, expand)
  IN  IF Len(filter.keys.elems) > 0 /\ in.err = "nil"
        THEN [issued |-> TRUE, dbShardID |-> dbShardID, query |-> in.query,
              args |-> in.args, err |-> "nil"]
        ELSE [issued |-> TRUE, dbShardID |-> dbShardID, query |-> deleteMapQry(kind),
              args |-> IdentityArgs(filter), err |-> "nil"]

\* DeleteFrom<Kind>
DeleteFrom(kind, filter, expand) ==
  LET dbShardID == GetDBShardIDFromHistoryShardID(filter.id.shard_id, NumDBShards)
  IN  IF Len(filter.keys.elems) > 0
        THEN LET in == In(deleteKeyInMapQry(kind), IdentityArgs(filter), filter.keys.elems, expand)
             IN  IF in.err # "nil"
                   THEN NoStatement(in.err)
                   ELSE [issued |-> TRUE, dbShardID |-> dbShardID, query |-> in.query,
                         args |-> in.args, err |-> "nil"]
        ELSE [issued |-> TRUE, dbShardID |-> dbShardID, query |-> deleteMapQry(kind),
              args |-> IdentityArgs(filter), err |-> "nil"]

\* the errors the backend raises of its own accord; "nil" is no failure
Faults == {"bad_connection", "deadline_exceeded"}

\* pdb.driver.ExecContext / NamedExecContext / SelectContext on one physical
\* shard.  fault is the error the backend raises for the statement, or "nil";
\* a failed statement leaves the tables as they are.
Driver(dbv, plan, fault) ==
  IF fault # "nil"
    THEN [err |-> fault, db |-> dbv, out |-> {}]
    ELSE LET t == plan.query.table
             res == ExecStatement(dbv[t][plan.dbShardID], plan.query, plan.args)
         IN  [err |-> res.err,
              db |-> [dbv EXCEPT ![t][plan.dbShardID] = res.table],
              out |-> res.out]

----------------------------------------------------------------------------
(* State machine *)

Callers == {"c1", "c2"}

\* the failures a call meets: expand in the expansion of the key list, exec in
\* the backend's execution of the statement; "nil" is no failure
NoFault == [expand |-> "nil", exec |-> "nil"]

Idle == [pc |-> "idle"]

NoFilter == [id |-> [shard_id |-> -1], keys |-> NilKeys]

NoCall ==
  [op |-> "none", kind |-> "none", rows |-> <<>>, filter |-> NoFilter,
   err |-> "nil", out |-> {}, pre |-> <<>>, seq |-> 0, fault |-> NoFault, sent |-> 0]

EmptyDB == [t \in Tables |-> [s \in DBShards |-> {}]]

\* The handler's statement for a call
Plan(op, kind, rows, filter, expand) ==
  CASE op = "Replace" -> ReplaceInto(kind, rows)
    [] op = "Select"  -> SelectFrom(kind, filter)
    [] op = "Delete"  -> DeleteFrom(kind, filter, expand)

\* a Replace handler that sends the last row of a batch in a statement of its
\* own, after the statement of the rows before it
Outcome_LastRowApart(dbv, op, kind, rows, filter, fault) ==
  LET split == op = "Replace" /\ Len(rows) > 1
      head == Plan(op, kind, SubSeq(rows, 1, Len(rows) - 1), filter, fault.expand)
      plan == IF split THEN Plan(op, kind, <<rows[Len(rows)]>>, filter, fault.expand)
              ELSE Plan(op, kind, rows, filter, fault.expand)
      first == IF split THEN Driver(dbv, head, "nil")
               ELSE [err |-> "nil", db |-> dbv, out |-> {}]
      res == IF first.err # "nil" THEN first
             ELSE IF plan.issued THEN Driver(first.db, plan, fault.exec)
             ELSE [err |-> plan.err, db |-> dbv, out |-> {}]
  IN  [db |-> res.db,
       call |-> [op |-> op, kind |-> kind, rows |-> rows, filter |-> filter,
                 err |-> res.err,
                 out |-> IF op = "Select" THEN SelectRows(kind, filter, res.out) ELSE {},
                 pre |-> dbv, seq |-> 0, fault |-> fault,
                 sent |-> IF split THEN 2 ELSE IF plan.issued THEN 1 ELSE 0]]

\* a handler that sends its statement once more when the backend failed it
Outcome_RetriesOnce(dbv, op, kind, rows, filter, fault) ==
  LET plan == Plan(op, kind, rows, filter, fault.expand)
      first == IF plan.issued THEN Driver(dbv, plan, fault.exec)
               ELSE [err |-> plan.err, db |-> dbv, out |-> {}]
      retry == plan.issued /\ first.err # "nil"
      res == IF retry THEN Driver(first.db, plan, "nil") ELSE first
  IN  [db |-> res.db,
       call |-> [op |-> op, kind |-> kind, rows |-> rows, filter |-> filter,
                 err |-> res.err,
                 out |-> IF op = "Select" THEN SelectRows(kind, filter, res.out) ELSE {},
                 pre |-> dbv, seq |-> 0, fault |-> fault,
                 sent |-> IF retry THEN 2 ELSE IF plan.issued THEN 1 ELSE 0]]

\* What the call returns and what it leaves in the tables dbv: the handler
\* hands its statement, if it has one, to the driver once and returns the
\* driver's result.  sent counts the statements handed to the driver.
Outcome(dbv, op, kind, rows, filter, fault) ==
  LET plan == Plan(op, kind, rows, filter, fault.expand)
      res == IF plan.issued THEN Driver(dbv, plan, fault.exec)
             ELSE [err |-> plan.err, db |-> dbv, out |-> {}]
  IN  [db |-> res.db,
       call |-> [op |-> op, kind |-> kind, rows |-> rows, filter |-> filter,
                 err |-> res.err,
                 out |-> IF op = "Select" THEN SelectRows(kind, filter, res.out) ELSE {},
                 pre |-> dbv, seq |-> 0, fault |-> fault,
                 sent |-> IF plan.issued THEN 1 ELSE 0]]

\* A handler call run to completion: the tables after it, and the record of
\* the call with the tables as they were before it.
Completed(op, kind, rows, filter, fault) ==
  LET o == Outcome(db, op, kind, rows, filter, fault)
  IN  /\ db' = o.db
      /\ hist' = [o.call EXCEPT !.seq = hist.seq + 1]
      /\ ops' = ops + 1

\* TaskListScavengerActivity before its first statement: pc is the statement
\* it is at, ctxErr is activityCtx.Err(), alive is the scavenger's status,
\* seen is what the last scavenger.Alive() returned, beat tells that the
\* heartbeat of the current loop iteration is recorded, beats counts the
\* heartbeats (up to MaxBeats), ret is the returned error.
ActivityAtEntry ==
  [pc |-> "getScannerContext", ctxErr |-> "nil", started |-> FALSE, alive |-> FALSE,
   stopped |-> FALSE, seen |-> "none", beat |-> FALSE, beats |-> 0, ret |-> "none"]

Init ==
  /\ db = EmptyDB
  /\ calls = [c \in Callers |-> Idle]
  /\ hist = NoCall
  /\ ops = 0
  /\ scope \in {{k} : k \in Kinds}
  /\ act = ActivityAtEntry

\* a caller runs ReplaceInto<Kind> to completion, on at most n rows
Replace(kind, n, budget) ==
  /\ ops < budget
  /\ \E rows \in Batches(kind, n) : Completed("Replace", kind, rows, NoFilter, NoFault)
  /\ UNCHANGED <<calls, scope, act>>

\* a caller runs SelectFrom<Kind> to completion
Select(kind, budget) ==
  /\ ops < budget
  /\ \E e \in Executions :
       Completed("Select", kind, <<>>, [id |-> e, keys |-> NilKeys], NoFault)
  /\ UNCHANGED <<calls, scope, act>>

\* a caller runs DeleteFrom<Kind> to completion
Delete(kind, budget) ==
  /\ ops < budget
  /\ \E filter \in Filters : Completed("Delete", kind, <<>>, filter, NoFault)
  /\ UNCHANGED <<calls, scope, act>>

\* Behaviours of MaxOps calls, each Replace of at most one row
Next ==
  \E kind \in scope :
    \/ Replace(kind, 1, MaxOps)
    \/ Select(kind, MaxOps)
    \/ Delete(kind, MaxOps)

Spec == Init /\ [][Next]_vars

\* Behaviours of MaxBatchOps calls, each Replace of at most MaxBatch rows
NextBatch ==
  \E kind \in scope :
    \/ Replace(kind, MaxBatch, MaxBatchOps)
    \/ Select(kind, MaxBatchOps)
    \/ Delete(kind, MaxBatchOps)

SpecBatch == Init /\ [][NextBatch]_vars

\* a caller that works on two collection kinds
InitKinds ==
  /\ db = EmptyDB
  /\ calls = [c \in Callers |-> Idle]
  /\ hist = NoCall
  /\ ops = 0
  /\ scope \in {{k1, k2} : k1, k2 \in Kinds} \ {{k} : k \in Kinds}
  /\ act = ActivityAtEntry

\* Behaviours of MaxOps calls on two kinds, each Replace of at most one row
SpecKinds == InitKinds /\ [][Next]_vars

\* Row batches, of at most n rows, of a caller that does not partition its
\* batches: the rows of one batch may carry different logical shard ids.
AnyBatches(kind, n) == SeqsUpTo(Rows(kind), n)

\* a caller runs ReplaceInto<Kind> to completion, on any batch of at most n rows
ReplaceAny(kind, n, budget) ==
  /\ ops < budget
  /\ \E rows \in AnyBatches(kind, n) : Completed("Replace", kind, rows, NoFilter, NoFault)
  /\ UNCHANGED <<calls, scope, act>>

\* Behaviours of MaxBatchOps calls, each Replace of any batch of at most
\* MaxBatch rows
NextMixed ==
  \E kind \in scope :
    \/ ReplaceAny(kind, MaxBatch, MaxBatchOps)
    \/ Select(kind, MaxBatchOps)
    \/ Delete(kind, MaxBatchOps)

SpecMixed == Init /\ [][NextMixed]_vars

\* the errors the expansion of a key list raises
ExpandFaults == {"expansion_failed"}

\* what the backend does with a statement: executes it, or fails it
Verdicts == {[expand |-> "nil", exec |-> x] : x \in Faults \cup {"nil"}}

\* what a Delete meets: also a failure of the expansion of its key list
DeleteVerdicts ==
  {[expand |-> y, exec |-> x] : y \in ExpandFaults \cup {"nil"}, x \in Faults \cup {"nil"}}

\* a caller runs ReplaceInto<Kind> to completion; the backend may fail the
\* statement
ReplaceOrFail(kind, n, budget) ==
  /\ ops < budget
  /\ \E rows \in Batches(kind, n), fault \in Verdicts :
       Completed("Replace", kind, rows, NoFilter, fault)
  /\ UNCHANGED <<calls, scope, act>>

\* a caller runs SelectFrom<Kind> to completion; the backend may fail the
\* statement
SelectOrFail(kind, budget) ==
  /\ ops < budget
  /\ \E e \in Executions, fault \in Verdicts :
       Completed("Select", kind, <<>>, [id |-> e, keys |-> NilKeys], fault)
  /\ UNCHANGED <<calls, scope, act>>

\* a caller runs DeleteFrom<Kind> to completion; the backend may fail the
\* statement
DeleteOrFail(kind, budget) ==
  /\ ops < budget
  /\ \E filter \in Filters, fault \in DeleteVerdicts :
       Completed("Delete", kind, <<>>, filter, fault)
  /\ UNCHANGED <<calls, scope, act>>

\* Behaviours of MaxBatchOps calls on a backend that may fail any statement
NextFault ==
  \E kind \in scope :
    \/ ReplaceOrFail(kind, MaxBatch, MaxBatchOps)
    \/ SelectOrFail(kind, MaxBatchOps)
    \/ DeleteOrFail(kind, MaxBatchOps)

SpecFault == Init /\ [][NextFault]_vars

----------------------------------------------------------------------------
(* Concurrent callers: a call is invoked with its arguments, and its       *)
(* statement is executed by the backend at some later step.                *)

\* overlap: another caller's call was in flight when this one was invoked;
\* a completed call also records its error and its position (at) in the
\* order of the backend's commits
Pending(c, op, kind, rows, filter) ==
  [pc |-> "pending", op |-> op, kind |-> kind, rows |-> rows, filter |-> filter,
   overlap |-> \E d \in Callers \ {c} : calls[d].pc = "pending"]

\* caller c enters a handler
Invoke(c) ==
  /\ ops < MaxConcOps
  /\ calls[c].pc # "pending"
  /\ \E kind \in scope :
       \/ \E rows \in Batches(kind, 1) :
            calls' = [calls EXCEPT ![c] = Pending(c, "Replace", kind, rows, NoFilter)]
       \/ \E filter \in Filters :
            calls' = [calls EXCEPT ![c] = Pending(c, "Delete", kind, <<>>, filter)]
       \/ \E e \in Executions :
            calls' = [calls EXCEPT ![c] =
                        Pending(c, "Select", kind, <<>>, [id |-> e, keys |-> NilKeys])]
  /\ ops' = ops + 1
  /\ UNCHANGED <<db, hist, scope, act>>

\* the backend executes the statement of caller c, and the handler returns
Commit(c) ==
  /\ calls[c].pc = "pending"
  /\ LET o == Outcome(db, calls[c].op, calls[c].kind, calls[c].rows, calls[c].filter, NoFault)
     IN  /\ db' = o.db
         /\ hist' = [o.call EXCEPT !.seq = hist.seq + 1]
         /\ calls' = [calls EXCEPT ![c] =
                        [@ EXCEPT !.pc = "done"] @@ [err |-> o.call.err, at |-> hist.seq + 1]]
  /\ UNCHANGED <<ops, scope, act>>

NextConc == \E c \in Callers : Invoke(c) \/ Commit(c)

SpecConc == Init /\ [][NextConc]_vars

\* caller c enters ReplaceInto<Kind> with a batch of rows
InvokeReplaceBatch(c) ==
  /\ ops < MaxConcOps
  /\ calls[c].pc # "pending"
  /\ \E kind \in scope : \E rows \in Batches(kind, MaxBatch) :
       calls' = [calls EXCEPT ![c] = Pending(c, "Replace", kind, rows, NoFilter)]
  /\ ops' = ops + 1
  /\ UNCHANGED <<db, hist, scope, act>>

\* caller c enters SelectFrom<Kind>
InvokeSelect(c) ==
  /\ ops < MaxConcOps
  /\ calls[c].pc # "pending"
  /\ \E kind \in scope, e \in Executions :
       calls' = [calls EXCEPT ![c] =
                   Pending(c, "Select", kind, <<>>, [id |-> e, keys |-> NilKeys])]
  /\ ops' = ops + 1
  /\ UNCHANGED <<db, hist, scope, act>>

\* the backend executes the statement of caller c, or fails it, and the
\* handler returns; a completed call also records what it returned (out)
CommitOrFail(c) ==
  /\ calls[c].pc = "pending"
  /\ \E fault \in Verdicts :
       LET o == Outcome(db, calls[c].op, calls[c].kind, calls[c].rows, calls[c].filter, fault)
       IN  /\ db' = o.db
           /\ hist' = [o.call EXCEPT !.seq = hist.seq + 1]
           /\ calls' = [calls EXCEPT ![c] =
                          [@ EXCEPT !.pc = "done"]
                            @@ [err |-> o.call.err, at |-> hist.seq + 1, out |-> o.call.out]]
  /\ UNCHANGED <<ops, scope, act>>

\* Behaviours of MaxConcOps calls of a caller that replaces batches of at most
\* MaxBatch rows and a concurrent caller that selects, on a backend that may
\* fail any statement
NextAtomic ==
  \/ InvokeReplaceBatch("c1")
  \/ InvokeSelect("c2")
  \/ \E c \in Callers : CommitOrFail(c)

SpecAtomic == Init /\ [][NextAtomic]_vars

\* a sqlplugin.<Kind>MapsFilter that names one key to delete
OneKeyFilters == {f \in Filters : Len(f.keys.elems) = 1}

\* caller c enters ReplaceInto<Kind> with one row, or DeleteFrom<Kind> with a
\* list of one key
InvokeWrite(c) ==
  /\ ops < MaxRaceOps
  /\ calls[c].pc # "pending"
  /\ \E kind \in scope :
       \/ \E rows \in Batches(kind, 1) \ {<<>>} :
            calls' = [calls EXCEPT ![c] = Pending(c, "Replace", kind, rows, NoFilter)]
       \/ \E filter \in OneKeyFilters :
            calls' = [calls EXCEPT ![c] = Pending(c, "Delete", kind, <<>>, filter)]
  /\ ops' = ops + 1
  /\ UNCHANGED <<db, hist, scope, act>>

\* Behaviours of MaxRaceOps writing calls of concurrent callers
NextRace == \E c \in Callers : InvokeWrite(c) \/ Commit(c)

SpecRace == Init /\ [][NextRace]_vars

\* caller c enters ReplaceInto<Kind> with a batch of at most MaxBatch rows, or
\* DeleteFrom<Kind> with a nil key list or a list of at most MaxBatch keys
InvokeWriteBatch(c) ==
  /\ ops < MaxWriteOps
  /\ calls[c].pc # "pending"
  /\ \E kind \in scope :
       \/ \E rows \in Batches(kind, MaxBatch) :
            calls' = [calls EXCEPT ![c] = Pending(c, "Replace", kind, rows, NoFilter)]
       \/ \E filter \in Filters :
            calls' = [calls EXCEPT ![c] = Pending(c, "Delete", kind, <<>>, filter)]
  /\ ops' = ops + 1
  /\ UNCHANGED <<db, hist, scope, act>>

\* Behaviours of MaxWriteOps Replace and Delete calls of concurrent callers,
\* in every interleaving of their invocations and of the backend's commits
NextWrites == \E c \in Callers : InvokeWriteBatch(c) \/ Commit(c)

SpecWrites == Init /\ [][NextWrites]_vars

----------------------------------------------------------------------------
(* TaskListScavengerActivity: one run of the activity, the scavenger it    *)
(* starts and the activity context it is given.                            *)

\* the state of the persistence layer, which the activity's own statements
\* leave alone
persistence == <<db, calls, hist, ops, scope>>

\* the errors of a context that is cancelled or past its deadline
ContextErrors == {"context canceled", "context deadline exceeded"}

\* the error of getScannerContext
ScannerContextError == "scanner context not found"

\* ctx, err := getScannerContext(activityCtx); if err != nil { return err }
GetScannerContext ==
  /\ act.pc = "getScannerContext"
  /\ \/ act' = [act EXCEPT !.pc = "Start"]
     \/ act' = [act EXCEPT !.pc = "done", !.ret = ScannerContextError]
  /\ UNCHANGED persistence

\* scavenger.Start()
Start ==
  /\ act.pc = "Start"
  /\ act' = [act EXCEPT !.pc = "Alive", !.started = TRUE, !.alive = TRUE]
  /\ UNCHANGED persistence

\* the loop test that leaves the loop although the scavenger is alive
Alive_LeavesWhileAlive ==
  /\ act.pc = "Alive"
  /\ act' = [act EXCEPT !.seen = act.alive, !.beat = FALSE, !.pc = "done", !.ret = "nil"]
  /\ UNCHANGED persistence

\* for scavenger.Alive() { ... }; return nil
Alive ==
  /\ act.pc = "Alive"
  /\ act' = IF act.alive
              THEN [act EXCEPT !.seen = TRUE, !.beat = FALSE, !.pc = "RecordHeartbeat"]
              ELSE [act EXCEPT !.seen = FALSE, !.beat = FALSE, !.pc = "done", !.ret = "nil"]
  /\ UNCHANGED persistence

\* activity.RecordHeartbeat(activityCtx)
RecordHeartbeat ==
  /\ act.pc = "RecordHeartbeat"
  /\ act' = [act EXCEPT !.pc = "Err", !.beat = TRUE,
                        !.beats = IF @ < MaxBeats THEN @ + 1 ELSE @]
  /\ UNCHANGED persistence

\* the context check that returns the error right away
Err_ReturnsWithoutStop ==
  /\ act.pc = "Err"
  /\ act' = IF act.ctxErr # "nil"
              THEN [act EXCEPT !.pc = "done", !.ret = act.ctxErr]
              ELSE [act EXCEPT !.pc = "Sleep"]
  /\ UNCHANGED persistence

\* if activityCtx.Err() != nil
Err ==
  /\ act.pc = "Err"
  /\ act' = IF act.ctxErr # "nil"
              THEN [act EXCEPT !.pc = "Stop"]
              ELSE [act EXCEPT !.pc = "Sleep"]
  /\ UNCHANGED persistence

\* scavenger.Stop()
Stop ==
  /\ act.pc = "Stop"
  /\ act' = [act EXCEPT !.pc = "return", !.stopped = TRUE, !.alive = FALSE]
  /\ UNCHANGED persistence

\* return activityCtx.Err()
ReturnErr ==
  /\ act.pc = "return"
  /\ act' = [act EXCEPT !.pc = "done", !.ret = act.ctxErr]
  /\ UNCHANGED persistence

\* time.Sleep(tlScavengerHBInterval)
Sleep ==
  /\ act.pc = "Sleep"
  /\ act' = [act EXCEPT !.pc = "Alive"]
  /\ UNCHANGED persistence

\* the started scavenger finishes its work and is alive no longer
ScavengerExits ==
  /\ act.pc # "done"
  /\ act.alive
  /\ act' = [act EXCEPT !.alive = FALSE]
  /\ UNCHANGED persistence

\* the activity context is cancelled or passes its deadline; its error stays
ContextDone ==
  /\ act.pc # "done"
  /\ act.ctxErr = "nil"
  /\ \E e \in ContextErrors : act' = [act EXCEPT !.ctxErr = e]
  /\ UNCHANGED persistence

\* the statements of the activity
ActivityStep ==
  \/ GetScannerContext
  \/ Start
  \/ Alive
  \/ RecordHeartbeat
  \/ Err
  \/ Stop
  \/ ReturnErr
  \/ Sleep

NextActivity == ActivityStep \/ ScavengerExits \/ ContextDone

\* the activity's goroutine is scheduled as long as it has a statement to
\* execute, and Sleep returns
SpecActivity == Init /\ [][NextActivity]_vars /\ WF_vars(ActivityStep)

----------------------------------------------------------------------------
(* Vocabulary of the properties *)

\* every stored row of a kind, on whatever physical shard
AllRows(dbv, kind) == UNION {dbv[TableName(kind)][s] : s \in DBShards}

\* the stored rows of execution e
RowsOf(dbv, kind, e) == {r \in AllRows(dbv, kind) : Identity(r) = e}

PrimaryKey(kind, r) == Restrict(r, IdentityColumns \o <<KeyName(kind)>>)

\* the statement of the call that completed last
LastPlan == Plan(hist.op, hist.kind, hist.rows, hist.filter, hist.fault.expand)

\* what SelectFrom<Kind> returns for execution e on the tables dbv
SelectOut(dbv, kind, e) ==
  Outcome(dbv, "Select", kind, <<>>, [id |-> e, keys |-> NilKeys], NoFault).call.out

\* the tables after ReplaceInto<Kind>(rows) on the tables dbv
AfterReplace(dbv, kind, rows) == Outcome(dbv, "Replace", kind, rows, NoFilter, NoFault).db

\* r equals the written row w: same columns, same values, and in a timestamp
\* column the same instant at the backend's precision
EqualUpToTimestamp(r, w) ==
  /\ DOMAIN r = DOMAIN w
  /\ \A c \in DOMAIN w :
       IF c \in TimestampColumns
         THEN r[c].ns \div BackendPrecision = w[c].ns \div BackendPrecision
         ELSE r[c] = w[c]

LastKeys == hist.filter.keys.elems

LastKeySet == SeqRange(LastKeys)

DeleteDone == hist.op = "Delete" /\ hist.err = "nil"

ReplaceDone == hist.op = "Replace" /\ hist.err = "nil"

----------------------------------------------------------------------------
(* Key-set isolation and shard isolation of Delete *)

\* C1: after Delete(E, keys = {k1}) the row keyed k1 of E is absent, and every
\* other row of E is stored exactly as it was before the call.
C1_DeleteOneKeyRemovesOnlyThatRow ==
  (DeleteDone /\ Len(LastKeys) = 1) =>
    LET e == hist.filter.id
        k == KeyName(hist.kind)
    IN  /\ \A r \in RowsOf(db, hist.kind, e) : r[k] # LastKeys[1]
        /\ {r \in RowsOf(db, hist.kind, e) : r[k] # LastKeys[1]}
             = {r \in RowsOf(hist.pre, hist.kind, e) : r[k] # LastKeys[1]}

\* a Delete of one key of an execution that held that key and another one
C1_Witness ==
  /\ DeleteDone /\ Len(LastKeys) = 1
  /\ \E r1, r2 \in RowsOf(hist.pre, hist.kind, hist.filter.id) :
       /\ r1[KeyName(hist.kind)] = LastKeys[1]
       /\ r2[KeyName(hist.kind)] # LastKeys[1]
       /\ r1 \notin AllRows(db, hist.kind)
       /\ r2 \in AllRows(db, hist.kind)

\* C2: delete-all for execution E (Delete with no keys) leaves every row of
\* every other execution unchanged, on every physical shard and in every
\* table, also for executions of E's logical shard or E's physical shard.
C2_DeleteAllLeavesOtherExecutions ==
  (DeleteDone /\ Len(LastKeys) = 0) =>
    \A t \in Tables, s \in DBShards :
      {r \in db[t][s] : Identity(r) # hist.filter.id}
        = {r \in hist.pre[t][s] : Identity(r) # hist.filter.id}

\* a delete-all of an execution that had rows, next to rows of an execution
\* of another logical shard on the same physical shard
C2_Witness ==
  /\ DeleteDone /\ Len(LastKeys) = 0
  /\ RowsOf(hist.pre, hist.kind, hist.filter.id) # {}
  /\ RowsOf(db, hist.kind, hist.filter.id) = {}
  /\ \E s \in DBShards :
       \E r \in db[TableName(hist.kind)][s] :
         /\ r.shard_id # hist.filter.id.shard_id
         /\ r.run_id = hist.filter.id.run_id
         /\ GetDBShardIDFromHistoryShardID(hist.filter.id.shard_id, NumDBShards) = s

----------------------------------------------------------------------------
(* Concurrent Replace calls *)

\* the calls of c and d are the two statements the backend committed last
LastTwoCommits(c, d) ==
  /\ c # d
  /\ calls[c].pc = "done" /\ calls[d].pc = "done"
  /\ {calls[c].at, calls[d].at} = {hist.seq - 1, hist.seq}

\* c and d each replaced one row, of one execution, under different keys
DisjointReplaces(c, d) ==
  /\ LastTwoCommits(c, d)
  /\ calls[c].op = "Replace" /\ calls[d].op = "Replace"
  /\ calls[c].err = "nil" /\ calls[d].err = "nil"
  /\ calls[c].kind = calls[d].kind
  /\ Len(calls[c].rows) = 1 /\ Len(calls[d].rows) = 1
  /\ Identity(calls[c].rows[1]) = Identity(calls[d].rows[1])
  /\ calls[c].rows[1][KeyName(calls[c].kind)] # calls[d].rows[1][KeyName(calls[d].kind)]

\* C3: two Replace calls on disjoint keys of one execution leave, in whatever
\* order the backend commits them, both written rows stored, each with the
\* value its own call wrote.
C3_DisjointReplacesConverge ==
  \A c, d \in Callers :
    DisjointReplaces(c, d) =>
      \A x \in {c, d} :
        \E r \in RowsOf(db, calls[x].kind, Identity(calls[x].rows[1])) :
          EqualUpToTimestamp(r, calls[x].rows[1])

\* two such calls that were in flight together, the second invoked one
\* committing first
C3_Witness ==
  \E c, d \in Callers :
    /\ DisjointReplaces(c, d)
    /\ calls[d].overlap
    /\ calls[d].at < calls[c].at
    /\ calls[c].rows[1].data # calls[d].rows[1].data

----------------------------------------------------------------------------
(* Empty inputs *)

\* C4: Delete with a present but empty key list issues no statement, leaves
\* the stored state unchanged and returns success.
C4_EmptyKeyListIsNoOp ==
  (hist.op = "Delete" /\ ~hist.filter.keys.isNil /\ Len(LastKeys) = 0) =>
    /\ ~LastPlan.issued
    /\ db = hist.pre
    /\ hist.err = "nil"

\* C5: Delete with a non-empty key list executes delete-by-key-set and removes
\* exactly the rows of the execution under those keys; Delete with no keys
\* (nil or empty) executes delete-all, and no row of the execution remains.
C5_DeleteByKeySetOrAll ==
  DeleteDone =>
    LET t == TableName(hist.kind)
        e == hist.filter.id
    IN  IF Len(LastKeys) > 0
          THEN /\ LastPlan.query.shape = "deleteKeys"
               /\ \A s \in DBShards :
                    db[t][s] = {r \in hist.pre[t][s] :
                                  ~(Identity(r) = e /\ r[KeyName(hist.kind)] \in LastKeySet)}
          ELSE /\ LastPlan.query.shape = "deleteAll"
               /\ RowsOf(db, hist.kind, e) = {}

\* a Delete of two keys of an execution that held a row under each
C5_Witness ==
  /\ DeleteDone /\ Cardinality(LastKeySet) = 2
  /\ Cardinality(RowsOf(hist.pre, hist.kind, hist.filter.id)) = 2
  /\ RowsOf(db, hist.kind, hist.filter.id) = {}

\* C6: Replace with an empty row sequence returns no error, issues no
\* statement, and leaves the stored state unchanged.
C6_EmptyReplaceIsNoOp ==
  (hist.op = "Replace" /\ Len(hist.rows) = 0) =>
    /\ hist.err = "nil"
    /\ ~LastPlan.issued
    /\ db = hist.pre

\* an empty Replace on tables that hold rows
C6_Witness ==
  /\ hist.op = "Replace" /\ Len(hist.rows) = 0
  /\ AllRows(db, hist.kind) # {}

----------------------------------------------------------------------------
(* Replace: idempotence, round trip, full replacement, key uniqueness *)

\* C7: Replace(rows) executed twice yields the same Select result, for every
\* execution, as Replace(rows) executed once; the second call is given the
\* same content, or the caller's slice as the first call left it.
C7_ReplaceTwiceSameSelect ==
  hist.op = "Replace" =>
    \A e \in Executions :
      /\ SelectOut(AfterReplace(db, hist.kind, hist.rows), hist.kind, e)
           = SelectOut(db, hist.kind, e)
      /\ SelectOut(AfterReplace(db, hist.kind, ConvertRows(hist.kind, hist.rows)),
                   hist.kind, e)
           = SelectOut(db, hist.kind, e)

\* a Replace of two rows, one new and one that overwrote a stored row with
\* another value
C7_Witness ==
  /\ ReplaceDone /\ Len(hist.rows) = 2
  /\ SelectOut(db, hist.kind, Identity(hist.rows[1]))
       # SelectOut(hist.pre, hist.kind, Identity(hist.rows[1]))
  /\ \E old \in AllRows(hist.pre, hist.kind) :
       /\ old \notin AllRows(db, hist.kind)
       /\ PrimaryKey(hist.kind, old) = PrimaryKey(hist.kind, hist.rows[2])
  /\ Cardinality(AllRows(db, hist.kind)) > Cardinality(AllRows(hist.pre, hist.kind))

\* C8: after a Replace, Select with the identity of any row of the batch
\* returns a row equal to the written one (identity, key and value columns),
\* up to the normalization of timestamps.
C8_SelectReturnsWrittenRow ==
  ReplaceDone =>
    \A i \in 1 .. Len(hist.rows) :
      \E r \in SelectOut(db, hist.kind, Identity(hist.rows[i])) :
        EqualUpToTimestamp(r, hist.rows[i])

\* an activity row written with a local, sub-precision timestamp, which Select
\* returns normalized, in a batch with a row of another execution
C8_Witness ==
  /\ ReplaceDone /\ Len(hist.rows) = 2 /\ hist.kind = "activity"
  /\ Identity(hist.rows[1]) # Identity(hist.rows[2])
  /\ hist.rows[2].last_heartbeat_updated_time = LocalTime
  /\ hist.rows[2] \notin SelectOut(db, hist.kind, Identity(hist.rows[2]))
  /\ \E r \in SelectOut(db, hist.kind, Identity(hist.rows[2])) :
       EqualUpToTimestamp(r, hist.rows[2])

\* the rows of the last Replace whose primary key was stored before the call
Colliding ==
  {i \in 1 .. Len(hist.rows) :
     \E old \in AllRows(hist.pre, hist.kind) :
       PrimaryKey(hist.kind, old) = PrimaryKey(hist.kind, hist.rows[i])}

\* C9: a Replace whose primary key collides with a stored row replaces that
\* row in full: the row stored under the key afterwards holds the incoming
\* value in every column.
C9_CollidingReplaceOverwritesAllColumns ==
  ReplaceDone =>
    \A i \in Colliding :
      /\ \E r \in AllRows(db, hist.kind) :
           PrimaryKey(hist.kind, r) = PrimaryKey(hist.kind, hist.rows[i])
      /\ \A r \in AllRows(db, hist.kind) :
           PrimaryKey(hist.kind, r) = PrimaryKey(hist.kind, hist.rows[i])
             => EqualUpToTimestamp(r, hist.rows[i])

\* a collision in which every value column changes
C9_Witness ==
  /\ ReplaceDone /\ hist.kind # "sigreq"
  /\ \E i \in Colliding :
       \E old \in AllRows(hist.pre, hist.kind) :
         /\ PrimaryKey(hist.kind, old) = PrimaryKey(hist.kind, hist.rows[i])
         /\ \A c \in SeqRange(Columns(hist.kind)) : old[c] # hist.rows[i][c]
         /\ old \notin AllRows(db, hist.kind)

\* C10: in every state that Replace and Delete calls of concurrent callers
\* reach, in any order of their invocations and of the backend's commits, each
\* kind holds at most one row per (shard_id, domain_id, workflow_id, run_id,
\* map key), over all physical shards.
C10_PrimaryKeyUnique ==
  \A kind \in Kinds :
    \A s1, s2 \in DBShards :
      \A r1 \in db[TableName(kind)][s1], r2 \in db[TableName(kind)][s2] :
        PrimaryKey(kind, r1) = PrimaryKey(kind, r2) => (s1 = s2 /\ r1 = r2)

\* a Replace of two rows that was invoked while another caller's call was in
\* flight and committed after it, on a stored key with another value, next to
\* a row under another key of the execution
C10_Witness ==
  /\ ReplaceDone /\ Colliding # {} /\ hist.kind # "sigreq"
  /\ AllRows(db, hist.kind) # AllRows(hist.pre, hist.kind)
  /\ Cardinality(RowsOf(db, hist.kind, Identity(hist.rows[1]))) = 2
  /\ Len(hist.rows) = 2
  /\ \E c \in Callers :
       calls[c].pc = "done" /\ calls[c].at = hist.seq /\ calls[c].overlap

----------------------------------------------------------------------------
(* Shard residence of stored rows *)

\* the stored rows that lie on another physical shard than the one the
\* router resolves from their own logical shard id
Misplaced(dbv) ==
  {<<t, s, r>> \in UNION {{<<t, s, r>> : r \in dbv[t][s]} : t \in Tables, s \in DBShards} :
     GetDBShardIDFromHistoryShardID(r.shard_id, NumDBShards) # s}

\* the rows of the last call's batch carry one logical shard id
OneLogicalShard == \A i \in 1 .. Len(hist.rows) : hist.rows[i].shard_id = hist.rows[1].shard_id

\* C11 as stated: every stored row resides on the physical shard the router
\* resolves from the row's own logical shard id, also after Replace batches
\* whose rows carry different logical shard ids.
C11_EveryRowOnItsOwnShard == Misplaced(db) = {}

\* C11 amended: a call whose batch carries one logical shard id (and every
\* Select and Delete) adds no row to a physical shard other than the one the
\* router resolves from the row's own logical shard id, and a successful such
\* Replace leaves every row of its batch stored on that shard.
C11_OneShardBatchOnItsOwnShard ==
  (hist.op # "none" /\ OneLogicalShard) =>
    /\ Misplaced(db) \subseteq Misplaced(hist.pre)
    /\ ReplaceDone =>
         \A i \in 1 .. Len(hist.rows) :
           \E r \in db[TableName(hist.kind)]
                      [GetDBShardIDFromHistoryShardID(hist.rows[i].shard_id, NumDBShards)] :
             EqualUpToTimestamp(r, hist.rows[i])

\* a Replace of two rows of logical shard 1, stored on physical shard 1, after
\* a Replace that left a row on a shard its logical shard id does not resolve to
C11_Witness ==
  /\ ReplaceDone /\ Len(hist.rows) = 2 /\ OneLogicalShard
  /\ hist.rows[1].shard_id = 1
  /\ hist.rows[1] # hist.rows[2]
  /\ Misplaced(hist.pre) # {}
  /\ Cardinality(db[TableName(hist.kind)][1]) > Cardinality(hist.pre[TableName(hist.kind)][1])

----------------------------------------------------------------------------
(* Identity reattachment of Select *)

SelectDone == hist.op = "Select" /\ hist.err = "nil"

\* C12: every row a Select returns carries the filter's shard, domain,
\* workflow and run identifiers in its identity columns, and there is one
\* returned row for each row the backend scanned.
C12_SelectRestampsIdentity ==
  SelectDone =>
    /\ \A r \in hist.out : Identity(r) = hist.filter.id
    /\ Cardinality(hist.out)
         = Cardinality(Driver(hist.pre, LastPlan, "nil").out)

\* a Select, with a filter of logical shard 2, that returned two rows
C12_Witness ==
  /\ SelectDone
  /\ hist.filter.id.shard_id = 2
  /\ Cardinality(hist.out) = 2

----------------------------------------------------------------------------
(* Failures *)

\* the backend failed the statement of the last call
BackendFailed == hist.op # "none" /\ LastPlan.issued /\ hist.fault.exec # "nil"

\* C13: every Replace, Select or Delete hands at most one statement to the
\* backend, and when the backend fails that statement the call returns the
\* backend's error as it is: no second statement, no other error, no success.
C13_BackendErrorReturnedOnce ==
  /\ hist.sent <= 1
  /\ BackendFailed => (hist.sent = 1 /\ hist.err = hist.fault.exec)

\* a Delete by key list that the backend failed after the deadline, on an
\* execution whose rows are stored
C13_Witness ==
  /\ BackendFailed
  /\ hist.op = "Delete" /\ Len(LastKeys) > 0
  /\ hist.fault.exec = "deadline_exceeded"
  /\ hist.err = "deadline_exceeded"
  /\ RowsOf(db, hist.kind, hist.filter.id) # {}

\* the expansion of the last call's key list failed
ExpansionFailed ==
  hist.op = "Delete" /\ Len(LastKeys) > 0 /\ hist.fault.expand # "nil"

\* C14: when the expansion of the key list into bound parameters fails, the
\* Delete returns the expansion's error, no statement is handed to the
\* backend, and the stored state is unchanged.
C14_ExpansionErrorBeforeStatement ==
  ExpansionFailed =>
    /\ hist.err = hist.fault.expand
    /\ ~LastPlan.issued /\ hist.sent = 0
    /\ db = hist.pre

\* a failed expansion of a list of two keys of an execution that holds a row
\* under each of them
C14_Witness ==
  /\ ExpansionFailed
  /\ hist.err = "expansion_failed"
  /\ Cardinality(LastKeySet) = 2
  /\ {r[KeyName(hist.kind)] : r \in RowsOf(db, hist.kind, hist.filter.id)} = LastKeySet

----------------------------------------------------------------------------
(* Concurrent Replace and Delete calls *)

\* the call of caller c is a successful Replace of one row, or a successful
\* Delete, that addresses key k of execution e
Touches(c, e, k) ==
  /\ calls[c].err = "nil"
  /\ \/ /\ calls[c].op = "Replace" /\ Len(calls[c].rows) = 1
        /\ Identity(calls[c].rows[1]) = e
        /\ calls[c].rows[1][KeyName(calls[c].kind)] = k
     \/ /\ calls[c].op = "Delete"
        /\ calls[c].filter.id = e
        /\ k \in SeqRange(calls[c].filter.keys.elems)

\* c and d are the last two commits, d the later one, both address key k of
\* execution e, and at least one of them is a Replace
SameKeyRace(c, d, e, k) ==
  /\ LastTwoCommits(c, d)
  /\ calls[d].at = hist.seq
  /\ calls[c].kind = calls[d].kind
  /\ Touches(c, e, k) /\ Touches(d, e, k)
  /\ "Replace" \in {calls[c].op, calls[d].op}

\* the rows stored under key k of execution e
RowsUnder(kind, e, k) == {r \in RowsOf(db, kind, e) : r[KeyName(kind)] = k}

\* C15: when a Replace and a Delete, or two Replaces, address the same key of
\* the same execution, the key ends as the statement committed last leaves
\* it: absent if that is the Delete, holding the value of the last committed
\* Replace otherwise.
C15_SameKeyLastCommitWins ==
  \A c, d \in Callers, e \in Executions, k \in Keys :
    SameKeyRace(c, d, e, k) =>
      IF calls[d].op = "Delete"
        THEN RowsUnder(calls[d].kind, e, k) = {}
        ELSE /\ Cardinality(RowsUnder(calls[d].kind, e, k)) = 1
             /\ \A r \in RowsUnder(calls[d].kind, e, k) :
                  EqualUpToTimestamp(r, calls[d].rows[1])

\* a Replace invoked while another Replace of the same key with another value
\* was in flight, the one invoked first committing last and its value stored
C15_Witness ==
  \E c, d \in Callers, e \in Executions, k \in Keys :
    /\ SameKeyRace(c, d, e, k)
    /\ calls[c].op = "Replace" /\ calls[d].op = "Replace"
    /\ calls[c].overlap
    /\ calls[d].kind # "sigreq"
    /\ calls[c].rows[1].data # calls[d].rows[1].data
    /\ \E r \in RowsUnder(calls[d].kind, e, k) : r.data = calls[d].rows[1].data

\* c replaced one row and d deleted by a key list without that row's key, on
\* the same execution, as the last two commits, in either order
DisjointReplaceDelete(c, d) ==
  /\ LastTwoCommits(c, d)
  /\ calls[c].op = "Replace" /\ calls[d].op = "Delete"
  /\ calls[c].err = "nil" /\ calls[d].err = "nil"
  /\ calls[c].kind = calls[d].kind
  /\ Len(calls[c].rows) = 1 /\ Len(calls[d].filter.keys.elems) > 0
  /\ Identity(calls[c].rows[1]) = calls[d].filter.id
  /\ calls[c].rows[1][KeyName(calls[c].kind)] \notin SeqRange(calls[d].filter.keys.elems)

\* C16: a Replace on key k1 and a Delete with a key list without k1, on the
\* same execution, both take effect in whatever order the backend commits
\* them: afterwards k1 holds the replaced value and the listed keys are absent.
C16_DisjointReplaceDeleteCommute ==
  \A c, d \in Callers :
    DisjointReplaceDelete(c, d) =>
      LET kind == calls[c].kind
          e == calls[d].filter.id
      IN  /\ \E r \in RowsUnder(kind, e, calls[c].rows[1][KeyName(kind)]) :
               EqualUpToTimestamp(r, calls[c].rows[1])
          /\ \A k \in SeqRange(calls[d].filter.keys.elems) : RowsUnder(kind, e, k) = {}

\* the Delete was invoked while the Replace was in flight and committed last,
\* removing a row stored under its key and leaving the replaced row
C16_Witness ==
  \E c, d \in Callers :
    /\ DisjointReplaceDelete(c, d)
    /\ calls[d].overlap
    /\ calls[d].at = hist.seq
    /\ \E r \in RowsOf(hist.pre, calls[d].kind, calls[d].filter.id) :
         r[KeyName(calls[d].kind)] \in SeqRange(calls[d].filter.keys.elems)
    /\ RowsOf(db, calls[d].kind, calls[d].filter.id) # {}

----------------------------------------------------------------------------
(* Atomicity of a Replace batch *)

\* c replaced a batch and d selected, as the last two commits, in either order
ReplaceAndSelect(c, d) ==
  /\ LastTwoCommits(c, d)
  /\ calls[c].op = "Replace" /\ calls[c].err = "nil"
  /\ calls[d].op = "Select" /\ calls[d].err = "nil"
  /\ calls[c].kind = calls[d].kind

\* the rows of the batch of c that belong to the execution d selected
BatchRowsOf(c, d) ==
  {calls[c].rows[i] : i \in {j \in 1 .. Len(calls[c].rows) :
                               Identity(calls[c].rows[j]) = calls[d].filter.id}}

\* C17: a Select in flight together with a Replace returns every row of the
\* batch that belongs to its execution, or exactly what was stored before the
\* Replace, never a part of the batch; and a Replace that returned an error
\* left the stored state as it was.
C17_ReplaceBatchAtomic ==
  /\ \A c, d \in Callers :
       ReplaceAndSelect(c, d) =>
         \/ \A w \in BatchRowsOf(c, d) : \E r \in calls[d].out : EqualUpToTimestamp(r, w)
         \/ /\ calls[d].at < calls[c].at
            /\ calls[d].out = SelectOut(hist.pre, calls[d].kind, calls[d].filter.id)
  /\ (hist.op = "Replace" /\ hist.err # "nil") => db = hist.pre

\* a Select invoked while a Replace of two rows of its execution was in
\* flight, which committed after it and returned both rows
C17_Witness ==
  \E c, d \in Callers :
    /\ ReplaceAndSelect(c, d)
    /\ calls[d].overlap
    /\ calls[c].at < calls[d].at
    /\ Len(calls[c].rows) = 2
    /\ Cardinality(BatchRowsOf(c, d)) = 2
    /\ Cardinality(calls[d].out) = 2

----------------------------------------------------------------------------
(* One physical shard per execution identity *)

\* the tables after DeleteFrom<Kind>(filter) on the tables dbv
AfterDelete(dbv, kind, filter) == Outcome(dbv, "Delete", kind, <<>>, filter, NoFault).db

\* the logical shard id the last call routes by
LastShardID == IF hist.op = "Replace" THEN hist.rows[1].shard_id ELSE hist.filter.id.shard_id

\* C18: Replace, Select and Delete for one execution identity target the same
\* physical shard, the one the router resolves from the identity's logical
\* shard id; a row written by Replace is returned by a later Select and
\* removed by a later Delete (of all keys, or of the row's key) with the same
\* identity.
C18_OneShardPerIdentity ==
  /\ (hist.op # "none" /\ LastPlan.issued) =>
       LastPlan.dbShardID = GetDBShardIDFromHistoryShardID(LastShardID, NumDBShards)
  /\ ReplaceDone =>
       \A i \in 1 .. Len(hist.rows) :
         LET w == hist.rows[i]
             e == Identity(w)
             all == [id |-> e, keys |-> NilKeys]
             one == [id |-> e, keys |-> [isNil |-> FALSE,
                                         elems |-> <<w[KeyName(hist.kind)]>>]]
         IN  /\ SelectFrom(hist.kind, all).dbShardID = LastPlan.dbShardID
             /\ DeleteFrom(hist.kind, all, "nil").dbShardID = LastPlan.dbShardID
             /\ DeleteFrom(hist.kind, one, "nil").dbShardID = LastPlan.dbShardID
             /\ \E r \in SelectOut(db, hist.kind, e) : EqualUpToTimestamp(r, w)
             /\ RowsOf(AfterDelete(db, hist.kind, all), hist.kind, e) = {}
             /\ \A r \in RowsOf(AfterDelete(db, hist.kind, one), hist.kind, e) :
                  r[KeyName(hist.kind)] # w[KeyName(hist.kind)]

\* a Replace of a row of logical shard 1, stored on physical shard 1 next to
\* rows on physical shard 0
C18_Witness ==
  /\ ReplaceDone /\ Len(hist.rows) = 1
  /\ hist.rows[1].shard_id = 1
  /\ LastPlan.dbShardID = 1
  /\ db[TableName(hist.kind)][1] # hist.pre[TableName(hist.kind)][1]
  /\ db[TableName(hist.kind)][0] # {}

----------------------------------------------------------------------------
(* Two rows of one primary key in one batch *)

\* the pairs of rows of the last Replace batch that share a primary key
DuplicatePairs ==
  {<<i, j>> \in (1 .. Len(hist.rows)) \X (1 .. Len(hist.rows)) :
     /\ i < j
     /\ PrimaryKey(hist.kind, hist.rows[i]) = PrimaryKey(hist.kind, hist.rows[j])}

\* C19: a Replace whose batch holds two rows of one primary key succeeds, and
\* the row stored under that key afterwards equals the later of the two.
C19_DuplicateKeyLastWins ==
  (hist.op = "Replace" /\ DuplicatePairs # {}) =>
    /\ hist.err = "nil"
    /\ \A p \in DuplicatePairs :
         /\ \E r \in AllRows(db, hist.kind) :
              PrimaryKey(hist.kind, r) = PrimaryKey(hist.kind, hist.rows[p[2]])
         /\ \A r \in AllRows(db, hist.kind) :
              PrimaryKey(hist.kind, r) = PrimaryKey(hist.kind, hist.rows[p[2]])
                => EqualUpToTimestamp(r, hist.rows[p[2]])

----------------------------------------------------------------------------
(* Bound parameters of the key-set delete *)

\* the placeholders in the IN list of a key-set delete statement
InListPlaceholders(query) == query.bindvars - Len(query.where)

\* C20: a Delete with n >= 1 keys hands one statement to the backend, with
\* 4 + n bound parameters, the four identity values followed by the n keys in
\* the order of the list, and n placeholders in its IN list.
C20_DeleteBindsFourPlusN ==
  (hist.op = "Delete" /\ Len(LastKeys) >= 1 /\ hist.fault.expand = "nil") =>
    /\ LastPlan.issued /\ hist.sent = 1
    /\ LastPlan.query.shape = "deleteKeys"
    /\ Len(LastPlan.args) = 4 + Len(LastKeys)
    /\ LastPlan.args = IdentityArgs(hist.filter) \o LastKeys
    /\ InListPlaceholders(LastPlan.query) = Len(LastKeys)

\* a Delete with the keys 2, 1 in this order, of an execution that held a row
\* under each
C20_Witness ==
  /\ DeleteDone
  /\ LastKeys = <<2, 1>>
  /\ Len(LastPlan.args) = 6
  /\ Cardinality(RowsOf(hist.pre, hist.kind, hist.filter.id)) = 2
  /\ RowsOf(db, hist.kind, hist.filter.id) = {}

----------------------------------------------------------------------------
(* Statement text *)

\* the statement text of a call: the query without its bound values
StatementOf(op, kind, rows, filter) == Plan(op, kind, rows, filter, "nil").query

\* the calls of the last call's operation and kind with as many rows and as
\* many keys, whatever their identity, key and payload values
SameShapeCalls ==
  {c \in [rows : AnyBatches(hist.kind, 1), filter : Filters \cup {NoFilter}] :
     /\ Len(c.rows) = Len(hist.rows)
     /\ Len(c.filter.keys.elems) = Len(LastKeys)
     /\ (c.filter = NoFilter) = (hist.filter = NoFilter)}

\* C21: the statement text of a call depends on the kind, the operation and
\* the number of rows and keys only: every call of the same kind and
\* operation with as many rows and keys, whatever its identity, key and
\* payload values, sends the same text; the values travel as bound values.
C21_StatementTextIndependentOfValues ==
  (hist.op # "none" /\ LastPlan.issued) =>
    \A c \in SameShapeCalls :
      StatementOf(hist.op, hist.kind, c.rows, c.filter) = LastPlan.query

\* a Delete of two keys, and a Delete of another execution with other keys
\* that sends the same text with other bound values
C21_Witness ==
  /\ DeleteDone /\ Len(LastKeys) = 2
  /\ \E c \in SameShapeCalls :
       /\ c.filter.id # hist.filter.id
       /\ c.filter.keys.elems # LastKeys
       /\ StatementOf("Delete", hist.kind, c.rows, c.filter) = LastPlan.query
       /\ Plan("Delete", hist.kind, c.rows, c.filter, "nil").args # LastPlan.args

----------------------------------------------------------------------------
(* The signals-requested set *)

\* the signal ids stored for execution e
SignalIDs(dbv, e) == {r.signal_id : r \in RowsOf(dbv, "sigreq", e)}

\* the signal ids the last insert carries for execution e
InsertedIDs(e) ==
  {hist.rows[i].signal_id : i \in {j \in 1 .. Len(hist.rows) : Identity(hist.rows[j]) = e}}

\* C22: an insert into the signals-requested set succeeds, adds the ids that
\* are not stored and leaves the set unchanged when its ids are stored
\* already; a key-set delete removes its ids; so the set of an execution is
\* the ids inserted minus those deleted afterwards.
C22_SignalsRequestedIsASet ==
  hist.kind = "sigreq" =>
    /\ hist.op = "Replace" =>
         /\ hist.err = "nil"
         /\ \A e \in Executions :
              SignalIDs(db, e) = SignalIDs(hist.pre, e) \cup InsertedIDs(e)
         /\ (\A e \in Executions : InsertedIDs(e) \subseteq SignalIDs(hist.pre, e))
              => db = hist.pre
    /\ (hist.op = "Delete" /\ Len(LastKeys) > 0) =>
         /\ hist.err = "nil"
         /\ \A e \in Executions :
              SignalIDs(db, e) = IF e = hist.filter.id
                                   THEN SignalIDs(hist.pre, e) \ LastKeySet
                                   ELSE SignalIDs(hist.pre, e)
    /\ \A e \in Executions :
         Cardinality(RowsOf(db, "sigreq", e)) = Cardinality(SignalIDs(db, e))

\* an insert of a signal id that is stored for the execution, next to
\* another stored id of it
C22_Witness ==
  /\ hist.kind = "sigreq" /\ ReplaceDone /\ Len(hist.rows) = 1
  /\ hist.rows[1].signal_id \in SignalIDs(hist.pre, Identity(hist.rows[1]))
  /\ Cardinality(SignalIDs(db, Identity(hist.rows[1]))) = 2
  /\ db = hist.pre

----------------------------------------------------------------------------
(* Frame of a call *)

\* C23: a Replace, Select or Delete on one kind leaves the tables of the five
\* other kinds as they were, on every physical shard.
C23_OtherKindsUnchanged ==
  hist.op # "none" =>
    \A t \in Tables \ {TableName(hist.kind)} : db[t] = hist.pre[t]

\* a delete-all on request-cancel-info that removed a row, while
\* child-execution-info holds a row of the same execution under the same
\* initiated_id
C23_Witness ==
  /\ DeleteDone /\ hist.kind = "cancel" /\ Len(LastKeys) = 0
  /\ RowsOf(db, "cancel", hist.filter.id) = {}
  /\ \E r \in RowsOf(hist.pre, "cancel", hist.filter.id) :
       \E q \in RowsOf(db, "child", hist.filter.id) : q.initiated_id = r.initiated_id

\* C24: a Select leaves the stored rows of every kind and execution as they
\* were, and a Select with the same filter right after it returns the same
\* set, again without changing the stored rows.
C24_SelectChangesNothing ==
  hist.op = "Select" =>
    LET again == Outcome(db, "Select", hist.kind, <<>>, hist.filter, NoFault)
    IN  /\ db = hist.pre
        /\ again.call.out = hist.out
        /\ again.call.err = hist.err
        /\ again.db = db

\* a Select that returned the two rows of its execution, which are stored on
\* after it
C24_Witness ==
  /\ SelectDone
  /\ Cardinality(hist.out) = 2
  /\ Cardinality(RowsOf(db, hist.kind, hist.filter.id)) = 2

\* the caller's slice as the last Replace left it
SliceAfter == ReplaceInto(hist.kind, hist.rows).slice

\* C25: a Replace leaves the rows of the caller's slice as they were, except
\* for activity-info, where each row's LastHeartbeatUpdatedTime is overwritten
\* with its converted value; a second Replace of the same slice converts the
\* converted value once more.
C25_ReplaceConvertsSliceInPlace ==
  hist.op = "Replace" =>
    /\ Len(SliceAfter) = Len(hist.rows)
    /\ \A i \in 1 .. Len(hist.rows) :
         IF hist.kind = "activity"
           THEN /\ SliceAfter[i] =
                     [hist.rows[i] EXCEPT !.last_heartbeat_updated_time =
                                            ToPostgresDateTime(@)]
                /\ ReplaceInto(hist.kind, SliceAfter).args[i].last_heartbeat_updated_time
                     = ToPostgresDateTime(
                         ToPostgresDateTime(hist.rows[i].last_heartbeat_updated_time))
           ELSE SliceAfter[i] = hist.rows[i]

\* a Replace of two activity-info rows, one with a local timestamp, that left
\* the caller's slice with another value
C25_Witness ==
  /\ ReplaceDone /\ hist.kind = "activity" /\ Len(hist.rows) = 2
  /\ hist.rows[1].last_heartbeat_updated_time = LocalTime
  /\ SliceAfter[1] # hist.rows[1]
  /\ SliceAfter[2] = hist.rows[2]

----------------------------------------------------------------------------
(* TaskListScavengerActivity *)

\* the activity is past its context check with an error, or has returned a
\* context error, only with the scavenger stopped
StoppedBeforeContextError ==
  /\ act.pc \in {"Stop", "return"} => act.ctxErr \in ContextErrors
  /\ act.pc = "return" => (act.stopped /\ ~act.alive)
  /\ act.ret \in ContextErrors => (act.stopped /\ act.ret = act.ctxErr)

\* C26: when the activity context has an error at the check of a loop
\* iteration, the activity's next statement is scavenger.Stop(), and it then
\* returns the context's error; it never returns a context error without
\* having stopped the scavenger.
C26_ContextErrorStopsScavengerFirst ==
  /\ []StoppedBeforeContextError
  /\ [][(act.pc = "Err" /\ act.ctxErr # "nil" /\ act'.pc # "Err") => act'.pc = "Stop"]_vars
  /\ (act.pc = "Stop") ~> (act.pc = "done" /\ act.ret \in ContextErrors)

\* the activity returned the cancellation of its context, which came after
\* the first loop iteration, with the scavenger stopped
C26_Witness ==
  /\ act.pc = "done" /\ act.ret = "context canceled"
  /\ act.stopped /\ ~act.alive
  /\ act.beats >= 2

\* nil is returned after Start and an Alive() that returned false; the context
\* check of an iteration comes after its heartbeat; a failed getScannerContext
\* is returned without a started scavenger
ReturnsInOrder ==
  /\ act.ret = "nil" => (act.pc = "done" /\ act.started /\ act.seen = FALSE)
  /\ act.pc = "Err" => (act.beat /\ act.seen = TRUE /\ act.beats >= 1)
  /\ act.ret = ScannerContextError =>
       (act.pc = "done" /\ ~act.started /\ ~act.alive /\ act.beats = 0)

\* C27: the activity returns nil only after the scavenger was started and
\* seen not alive; in every loop iteration the heartbeat is recorded before
\* the context check; the activity terminates once the started scavenger is
\* alive no longer, and once the context has an error; when getScannerContext
\* fails its error is returned and the scavenger is never started.
C27_ActivityReturns ==
  /\ []ReturnsInOrder
  /\ [][(act.pc = "Alive" /\ act.alive /\ act'.pc # "Alive")
          => act'.pc = "RecordHeartbeat"]_vars
  /\ (act.started /\ ~act.alive) ~> (act.pc = "done")
  /\ (act.ctxErr # "nil") ~> (act.pc = "done")

\* the activity returned nil after two heartbeats or more, the scavenger seen
\* not alive and the context without error
C27_Witness ==
  /\ act.pc = "done" /\ act.ret = "nil"
  /\ act.started /\ act.seen = FALSE /\ ~act.stopped
  /\ act.beats >= 2
  /\ act.ctxErr = "nil"

====
